---- MODULE Spec2Model ----
(***************************************************************************)
(* The AR view controller of src/src/components/ARScene.tsx as a state     *)
(* machine.                                                                *)
(*                                                                         *)
(* One display surface (the <canvas> behind canvasRef) receives mount and  *)
(* unmount notifications.  Every mount notification runs the useEffect     *)
(* body once and so creates one closure ("session") holding the locals of  *)
(* lines 54-60.  JavaScript runs each handler to completion, so one action *)
(* of the model is one handler: the effect body, one continuation of       *)
(* initAR after an await, one library callback, one animation frame, the   *)
(* effect's cleanup.                                                       *)
(*                                                                         *)
(* The tracking library is not part of the repository.  The model keeps    *)
(* what the declared interface (lines 15-38) and the calls made on it fix: *)
(* init(callback) reports completion through the callback, `ready` is a    *)
(* boolean read by animate, domElement.srcObject holds the camera stream.  *)
(* When the source reports ready is the library's choice: during init()    *)
(* itself or in a later task.                                              *)
(***************************************************************************)
EXTENDS Integers, FiniteSets, Sequences, TLC

\* Bounds of the model.
MaxSessions == 2        \* mount notifications delivered to the surface
MaxFrames == 2          \* render calls followed per session
MaxSize == 2            \* distinct window sizes
MaxRequests == 3        \* HTTP requests received by the server

Sessions == 1..MaxSessions
Sizes == 1..MaxSize
Requests == 1..MaxRequests

VARIABLES
    canvasRef,          \* canvasRef.current is an element (TRUE) or null (FALSE)
    dataInitialized,    \* the canvas carries the data-initialized attribute
    THREEx,             \* window.THREEx: "undefined", "partial" or "complete"
    innerSize,          \* window.innerWidth x window.innerHeight
    resizeListeners,    \* closures whose onResize is registered on window
    session,            \* per mount notification: the closure of lines 54-60
    server              \* the HTTPS server of server.js and its requests

vars == <<canvasRef, dataInitialized, THREEx, innerSize, resizeListeners, session,
          server>>

\* The page's variables, which the server's steps leave alone.
pageVars == <<canvasRef, dataInitialized, THREEx, innerSize, resizeListeners, session>>

\* The closure before its mount notification: every local still undefined.
FreshClosure ==
    [ mountState       |-> "fresh",      \* the host's view: fresh, mounted, unmounted
      hasCleanup       |-> FALSE,        \* the effect returned its cleanup function
      pc               |-> "none",       \* where initAR stands
      isMounted        |-> FALSE,
      logged           |-> FALSE,        \* console.error was called
      thrown           |-> FALSE,        \* an exception escaped a handler
      scene            |-> "undefined",
      markerRoot       |-> "undefined",  \* undefined, empty, model
      renderer         |-> "undefined",  \* undefined, live, disposed
      arToolkitSource  |-> "undefined",  \* undefined, pending, ready, error
      track            |-> "none",       \* camera media track: none, live, stopped
      arToolkitContext |-> "undefined",  \* undefined, pending, inited
      projectionCopied |-> FALSE,
      gltf             |-> "none",       \* none, pending, loaded, failed
      resizeTimer      |-> FALSE,        \* setTimeout(onResize, 500) is pending
      animationFrameId |-> 0,            \* 0 stands for undefined
      rafPending       |-> {},           \* frame callbacks requested and not yet run
      frames           |-> 0,            \* renderer.render calls
      updates          |-> 0,            \* arToolkitContext.update calls
      cameraVisible    |-> TRUE,
      sceneVisible     |-> TRUE,
      sourceSize       |-> 0,            \* 0: the element has its own default size
      rendererSize     |-> 0,
      canvasSize       |-> 0,
      script1          |-> "none",       \* ar.js: none, requested, loaded, failed
      script2          |-> "none",       \* ar-threex.js, likewise
      steps            |-> << >>,        \* statements of lines 96-165 that have run
      released         |-> << >>,        \* what the cleanup released, in order
      copies           |-> 0 ]           \* camera.projectionMatrix.copy calls

\* loadScript (lines 67-75): a script element is appended to the document head.
loadScript(c, n) ==
    IF n = 1 THEN [c EXCEPT !.script1 = "requested"]
    ELSE [c EXCEPT !.script2 = "requested"]

\* Fault: the effect body requesting both scripts at once.
useEffectBothScripts(c, ref, attr) ==
    IF ~ref \/ attr
    THEN [c EXCEPT !.mountState = "mounted", !.pc = "returned"]
    ELSE loadScript(loadScript([c EXCEPT !.mountState = "mounted",
                                         !.hasCleanup = TRUE,
                                         !.isMounted = TRUE,
                                         !.pc = "load1"], 1), 2)

\* Fault: the effect body without the data-initialized test of lines 49-51.
useEffectNoGuard(c, ref, attr) ==
    IF ~ref
    THEN [c EXCEPT !.mountState = "mounted", !.pc = "returned"]
    ELSE loadScript([c EXCEPT !.mountState = "mounted", !.hasCleanup = TRUE,
                              !.isMounted = TRUE, !.pc = "load1"], 1)

\* Fault: the effect body returning the cleanup on its early returns too.
useEffectAlwaysCleanup(c, ref, attr) ==
    IF ~ref \/ attr
    THEN [c EXCEPT !.mountState = "mounted", !.hasCleanup = TRUE, !.pc = "returned"]
    ELSE loadScript([c EXCEPT !.mountState = "mounted", !.hasCleanup = TRUE,
                              !.isMounted = TRUE, !.pc = "load1"], 1)

\* The useEffect body up to the first await of initAR (lines 45-79, 168-170).
useEffect(c, ref, attr) ==
    IF ~ref \/ attr
    THEN [c EXCEPT !.mountState = "mounted", !.pc = "returned"]
    ELSE loadScript([c EXCEPT !.mountState = "mounted", !.hasCleanup = TRUE,
                              !.isMounted = TRUE, !.pc = "load1"], 1)

\* onResize (lines 122-128).
onResize(c, inner) ==
    [c EXCEPT !.sourceSize = inner,
              !.rendererSize = inner,
              !.canvasSize = IF c.arToolkitContext = "inited" THEN inner ELSE @]

\* Fault: animate testing isMounted only.
animateNoReadyCheck(c, vis) ==
    IF ~c.isMounted
    THEN c
    ELSE [c EXCEPT !.animationFrameId = @ + 1,
                   !.rafPending = @ \cup {c.animationFrameId + 1},
                   !.updates = @ + 1,
                   !.cameraVisible = vis,
                   !.sceneVisible = vis,
                   !.frames = @ + 1]

\* Fault: animate copying camera.visible before the tracking update.
animateStaleVisibility(c, vis) ==
    IF ~c.isMounted \/ c.arToolkitSource # "ready"
    THEN c
    ELSE [c EXCEPT !.animationFrameId = @ + 1,
                   !.rafPending = @ \cup {c.animationFrameId + 1},
                   !.sceneVisible = c.cameraVisible,
                   !.updates = @ + 1,
                   !.cameraVisible = vis,
                   !.frames = @ + 1]

\* Fault: animate copying the projection matrix on each run.
animateCopiesProjection(c, vis) ==
    IF ~c.isMounted \/ c.arToolkitSource # "ready"
    THEN c
    ELSE [c EXCEPT !.animationFrameId = @ + 1,
                   !.rafPending = @ \cup {c.animationFrameId + 1},
                   !.updates = @ + 1,
                   !.copies = IF c.arToolkitContext = "inited" THEN @ + 1 ELSE @,
                   !.cameraVisible = vis,
                   !.sceneVisible = vis,
                   !.frames = @ + 1]

\* Fault: animate requesting a second frame callback on each run.
animateRequestsTwice(c, vis) ==
    IF ~c.isMounted \/ c.arToolkitSource # "ready"
    THEN c
    ELSE [c EXCEPT !.animationFrameId = @ + 2,
                   !.rafPending = @ \cup {c.animationFrameId + 1,
                                          c.animationFrameId + 2},
                   !.updates = @ + 1,
                   !.cameraVisible = vis,
                   !.sceneVisible = vis,
                   !.frames = @ + 1]

\* animate (lines 158-164); vis is camera.visible as the tracking update leaves it.
animate(c, vis) ==
    IF ~c.isMounted \/ c.arToolkitSource # "ready"
    THEN c
    ELSE [c EXCEPT !.animationFrameId = @ + 1,
                   !.rafPending = @ \cup {c.animationFrameId + 1},
                   !.updates = @ + 1,
                   !.cameraVisible = vis,
                   !.sceneVisible = vis,
                   !.frames = @ + 1]

\* The setup of lines 96-165, shared by resume and its faulty variants.
setup(c, inner, sync, vis) ==
    animate([c EXCEPT !.pc = "running",
                      !.steps = <<"mark", "scene", "renderer", "source", "context",
                                  "sourceInit", "resize", "contextInit",
                                  "markerControls", "model", "lights", "animate">>,
                      !.scene = "built",
                      !.renderer = "live",
                      !.rendererSize = inner,
                      !.arToolkitSource = IF sync THEN "ready" ELSE "pending",
                      !.track = IF sync THEN "live" ELSE "none",
                      !.resizeTimer = sync,
                      !.arToolkitContext = "pending",
                      !.markerRoot = "empty",
                      !.gltf = "pending"], vis)

\* Fault: line 86 testing the canvas only, not isMounted.
resumeNoMountCheck(c, ref, attr, threex, inner, sync, vis) ==
    IF ~ref
    THEN [c |-> [c EXCEPT !.pc = "stale"], attr |-> attr, listen |-> FALSE]
    ELSE IF threex # "complete"
    THEN [c |-> [c EXCEPT !.pc = "noTHREEx", !.logged = TRUE],
          attr |-> attr, listen |-> FALSE]
    ELSE [c |-> setup(c, inner, sync, vis), attr |-> TRUE, listen |-> TRUE]

\* Fault: line 96 moved before the entry-point test of lines 89-93.
resumeMarkFirst(c, ref, attr, threex, inner, sync, vis) ==
    IF ~c.isMounted \/ ~ref
    THEN [c |-> [c EXCEPT !.pc = "stale"], attr |-> attr, listen |-> FALSE]
    ELSE IF threex # "complete"
    THEN [c |-> [c EXCEPT !.pc = "noTHREEx", !.logged = TRUE],
          attr |-> TRUE, listen |-> FALSE]
    ELSE [c |-> setup(c, inner, sync, vis), attr |-> TRUE, listen |-> TRUE]

\* initAR after both scripts have loaded (lines 86-165).  sync: the tracking
\* source reports ready during init(); otherwise it reports later, if at all.
resume(c, ref, attr, threex, inner, sync, vis) ==
    IF ~c.isMounted \/ ~ref
    THEN [c |-> [c EXCEPT !.pc = "stale"], attr |-> attr, listen |-> FALSE]
    ELSE IF threex # "complete"
    THEN [c |-> [c EXCEPT !.pc = "noTHREEx", !.logged = TRUE],
          attr |-> attr, listen |-> FALSE]
    ELSE [c |-> setup(c, inner, sync, vis), attr |-> TRUE, listen |-> TRUE]

\* renderer?.dispose() (line 182).
dispose(r) ==
    [renderer |-> IF r = "live" THEN "disposed" ELSE r, thrown |-> FALSE]

\* Fault: the cleanup without line 174.
cancelNothing(pending, id) == pending

\* cancelAnimationFrame(animationFrameId) (line 174).
cancelAnimationFrame(pending, id) == pending \ {id}

\* Fault: the cleanup disposing of the renderer before anything else.
cleanupDisposeFirst(c, ref, attr) ==
    LET d == dispose(c.renderer)
        video == c.arToolkitSource # "undefined"
    IN [c |-> [c EXCEPT !.mountState = "unmounted",
                        !.isMounted = FALSE,
                        !.rafPending = cancelAnimationFrame(@, c.animationFrameId),
                        !.track = IF video /\ @ = "live" THEN "stopped" ELSE @,
                        !.renderer = d.renderer,
                        !.thrown = d.thrown,
                        !.released = (IF c.renderer # "undefined"
                                      THEN <<"renderer">> ELSE << >>)
                                     \o <<"animate">>
                                     \o (IF video /\ c.track = "live"
                                         THEN <<"source">> ELSE << >>)
                                     \o (IF ref THEN <<"mark">> ELSE << >>)],
        attr |-> IF ref /\ ~d.thrown THEN FALSE ELSE attr]

\* Fault: the cleanup without line 183.
cleanupKeepsMarker(c, ref, attr) ==
    LET d == dispose(c.renderer)
        video == c.arToolkitSource # "undefined"
    IN [c |-> [c EXCEPT !.mountState = "unmounted",
                        !.isMounted = FALSE,
                        !.rafPending = cancelAnimationFrame(@, c.animationFrameId),
                        !.track = IF video /\ @ = "live" THEN "stopped" ELSE @,
                        !.renderer = d.renderer,
                        !.thrown = d.thrown,
                        !.released = <<"animate">>
                                     \o (IF video /\ c.track = "live"
                                         THEN <<"source">> ELSE << >>)
                                     \o (IF c.renderer # "undefined"
                                         THEN <<"renderer">> ELSE << >>)
                                     \o << >>],
        attr |-> attr]

\* The effect's cleanup (lines 170-184).
cleanup(c, ref, attr) ==
    LET d == dispose(c.renderer)
        video == c.arToolkitSource # "undefined"
    IN [c |-> [c EXCEPT !.mountState = "unmounted",
                        !.isMounted = FALSE,
                        !.rafPending = cancelAnimationFrame(@, c.animationFrameId),
                        !.track = IF video /\ @ = "live" THEN "stopped" ELSE @,
                        !.renderer = d.renderer,
                        !.thrown = d.thrown,
                        !.released = <<"animate">>
                                     \o (IF video /\ c.track = "live"
                                         THEN <<"source">> ELSE << >>)
                                     \o (IF c.renderer # "undefined"
                                         THEN <<"renderer">> ELSE << >>)
                                     \o (IF ref THEN <<"mark">> ELSE << >>)],
        attr |-> IF ref /\ ~d.thrown THEN FALSE ELSE attr]

\* A request the server has not received yet.
NoRequest ==
    [state |-> "none", failed |-> "none", statusCode |-> 0, body |-> "",
     logged |-> FALSE]

\* Fault: the request callback without its try/catch: the rejection of the
\* async callback is unhandled and ends the process.
onErrorUncaught(srv, r, where) ==
    [srv EXCEPT !.phase = "crashed",
                !.requests[r].state = "handling",
                !.requests[r].failed = where]

\* The catch block of the request callback (server.js lines 22-26).
onError(srv, r, where) ==
    [srv EXCEPT !.requests[r] = [state |-> "answered", failed |-> where,
                                 statusCode |-> 500,
                                 body |-> "internal server error",
                                 logged |-> TRUE]]

Init ==
    /\ canvasRef \in BOOLEAN
    /\ dataInitialized = FALSE
    /\ THREEx = "undefined"
    /\ innerSize = 1
    /\ resizeListeners = {}
    /\ session = [s \in Sessions |-> FreshClosure]
    /\ server = [phase |-> "preparing",
                 requests |-> [r \in Requests |-> NoRequest]]

\* A mount notification: the effect body runs for the next closure.
Mount(s) ==
    /\ session[s].mountState = "fresh"
    /\ \A t \in Sessions : t < s => session[t].mountState # "fresh"
    /\ session' = [session EXCEPT ![s] = useEffect(@, canvasRef, dataInitialized)]
    /\ UNCHANGED <<server, canvasRef, dataInitialized, THREEx, innerSize, resizeListeners>>

\* An unmount notification: the cleanup runs if the effect returned one.
Unmount(s) ==
    /\ session[s].mountState = "mounted"
    /\ IF session[s].hasCleanup
       THEN LET r == cleanup(session[s], canvasRef, dataInitialized)
            IN /\ session' = [session EXCEPT ![s] = r.c]
               /\ dataInitialized' = r.attr
       ELSE /\ session' = [session EXCEPT ![s].mountState = "unmounted"]
            /\ UNCHANGED dataInitialized
    /\ UNCHANGED <<server, canvasRef, THREEx, innerSize, resizeListeners>>

\* ar.js has loaded: initAR goes on to request ar-threex.js (lines 79-80).
Script1Loaded(s) ==
    /\ session[s].pc = "load1"
    /\ session' = [session EXCEPT
                     ![s] = loadScript([@ EXCEPT !.script1 = "loaded",
                                                 !.pc = "load2"], 2)]
    /\ UNCHANGED <<server, canvasRef, dataInitialized, THREEx, innerSize, resizeListeners>>

\* A script's onerror: the rejection is caught and logged (lines 73, 81-84).
ScriptError(s) ==
    /\ session[s].pc \in {"load1", "load2"}
    /\ session' = [session EXCEPT
                     ![s].pc = "scriptError",
                     ![s].logged = TRUE,
                     ![s].script1 = IF session[s].pc = "load1" THEN "failed" ELSE @,
                     ![s].script2 = IF session[s].pc = "load2" THEN "failed" ELSE @]
    /\ UNCHANGED <<server, canvasRef, dataInitialized, THREEx, innerSize, resizeListeners>>

\* When a tracking source may report ready: only in a later task, as a source
\* that waits for the camera does, or also during init() itself.
LateReady == {FALSE}
AnyReady == BOOLEAN

\* ar-threex.js has loaded: the rest of initAR runs (lines 86-165).
Resume(s, syncs) ==
    /\ session[s].pc = "load2"
    /\ \E lib \in {"partial", "complete"}, sync \in syncs, vis \in BOOLEAN :
         LET threex == IF THREEx = "undefined" THEN lib ELSE THREEx
             r == resume([session[s] EXCEPT !.script2 = "loaded"], canvasRef,
                         dataInitialized, threex, innerSize, sync, vis)
         IN /\ THREEx' = threex
            /\ session' = [session EXCEPT ![s] = r.c]
            /\ dataInitialized' = r.attr
            /\ resizeListeners' = IF r.listen THEN resizeListeners \cup {s}
                                  ELSE resizeListeners
    /\ UNCHANGED <<server, canvasRef, innerSize>>

Script2Loaded(s) == Resume(s, LateReady)

Script2LoadedAnyReady(s) == Resume(s, AnyReady)

\* The camera stream arrives after init() returned: the library stores it in
\* domElement.srcObject, sets ready and calls the callback of line 130.
SourceReady(s) ==
    /\ session[s].arToolkitSource = "pending"
    /\ session' = [session EXCEPT ![s].arToolkitSource = "ready",
                                  ![s].track = "live",
                                  ![s].resizeTimer = TRUE]
    /\ UNCHANGED <<server, canvasRef, dataInitialized, THREEx, innerSize, resizeListeners>>

\* The camera is refused: the callback of line 130 is never called.
SourceError(s) ==
    /\ session[s].arToolkitSource = "pending"
    /\ session' = [session EXCEPT ![s].arToolkitSource = "error"]
    /\ UNCHANGED <<server, canvasRef, dataInitialized, THREEx, innerSize, resizeListeners>>

\* The timer of line 130 fires.
ResizeTimer(s) ==
    /\ session[s].resizeTimer
    /\ session' = [session EXCEPT
                     ![s] = onResize([@ EXCEPT !.resizeTimer = FALSE], innerSize)]
    /\ UNCHANGED <<server, canvasRef, dataInitialized, THREEx, innerSize, resizeListeners>>

\* The tracking context finishes its init: arController exists, with a canvas
\* of the library's own size, and the callback of lines 133-135 runs.
ContextInited(s) ==
    /\ session[s].arToolkitContext = "pending"
    /\ session' = [session EXCEPT ![s].arToolkitContext = "inited",
                                  ![s].canvasSize = 0,
                                  ![s].projectionCopied = TRUE,
                                  ![s].copies = @ + 1]
    /\ UNCHANGED <<server, canvasRef, dataInitialized, THREEx, innerSize, resizeListeners>>

\* The model has loaded: the success callback of lines 146-151.
ModelLoaded(s) ==
    /\ session[s].gltf = "pending"
    /\ session' = [session EXCEPT ![s].gltf = "loaded", ![s].markerRoot = "model"]
    /\ UNCHANGED <<server, canvasRef, dataInitialized, THREEx, innerSize, resizeListeners>>

\* The model failed to load: the error callback of line 151.
ModelFailed(s) ==
    /\ session[s].gltf = "pending"
    /\ session' = [session EXCEPT ![s].gltf = "failed", ![s].logged = TRUE]
    /\ UNCHANGED <<server, canvasRef, dataInitialized, THREEx, innerSize, resizeListeners>>

\* The host runs a requested frame callback: animate (lines 158-164).
FrameTick(s) ==
    /\ session[s].frames < MaxFrames
    /\ \E id \in session[s].rafPending, vis \in BOOLEAN :
         session' = [session EXCEPT
                       ![s] = animate([@ EXCEPT !.rafPending = @ \ {id}], vis)]
    /\ UNCHANGED <<server, canvasRef, dataInitialized, THREEx, innerSize, resizeListeners>>

\* The window is resized: every registered onResize runs (line 131).
WindowResize ==
    /\ \E w \in Sizes \ {innerSize} :
         /\ innerSize' = w
         /\ session' = [s \in Sessions |->
                          IF s \in resizeListeners THEN onResize(session[s], w)
                          ELSE session[s]]
    /\ UNCHANGED <<server, canvasRef, dataInitialized, THREEx, resizeListeners>>

\* The handlers that run whatever the tracking source does.
Callbacks(s) ==
    \/ Unmount(s)
    \/ Script1Loaded(s)
    \/ ScriptError(s)
    \/ SourceReady(s)
    \/ SourceError(s)
    \/ ResizeTimer(s)
    \/ ContextInited(s)
    \/ ModelLoaded(s)
    \/ ModelFailed(s)

\* Any number of mount notifications on the surface; the tracking source
\* reports ready in a later task.  No frame callback is ever requested here
\* (NoFrameRequested), so none runs.
Next ==
    \/ \E s \in Sessions : Mount(s)
    \/ \E s \in Sessions : Callbacks(s)
    \/ \E s \in Sessions : Script2Loaded(s)

Spec == Init /\ [][Next]_vars

\* One mount notification, followed through the frame loop; the tracking
\* source reports ready during init() or later.
NextLoop ==
    \/ Mount(1)
    \/ \E s \in Sessions : Callbacks(s)
    \/ \E s \in Sessions : Script2LoadedAnyReady(s)
    \/ \E s \in Sessions : FrameTick(s)

SpecLoop == Init /\ [][NextLoop]_vars

\* The host delivers what is pending: a script element fires onload or
\* onerror, a camera request is granted or refused, a timer fires, a load
\* completes or fails, a requested frame callback runs.  Mount and unmount
\* notifications are the host's to give or withhold.
Delivery(s) ==
    /\ WF_vars(Script1Loaded(s) \/ ScriptError(s) \/ Script2LoadedAnyReady(s))
    /\ WF_vars(SourceReady(s) \/ SourceError(s))
    /\ WF_vars(ResizeTimer(s))
    /\ WF_vars(ContextInited(s))
    /\ WF_vars(ModelLoaded(s) \/ ModelFailed(s))
    /\ WF_vars(FrameTick(s))

FairSpecLoop == SpecLoop /\ \A s \in Sessions : Delivery(s)

\* As Spec, with a window that is resized.
NextResize ==
    \/ Next
    \/ WindowResize

SpecResize == Init /\ [][NextResize]_vars


\* app.prepare() resolves and the server starts listening (server.js lines 17-31).
Listen ==
    /\ server.phase = "preparing"
    /\ server' = [server EXCEPT !.phase = "listening"]
    /\ UNCHANGED pageVars

\* A request arrives and the request callback runs up to its await: parse
\* returns or throws (server.js lines 18-21).
Receive(r) ==
    /\ server.phase = "listening"
    /\ server.requests[r].state = "none"
    /\ \A q \in Requests : q < r => server.requests[q].state # "none"
    /\ \E parseThrows \in BOOLEAN :
         server' = IF parseThrows THEN onError(server, r, "parse")
                   ELSE [server EXCEPT !.requests[r].state = "handling"]
    /\ UNCHANGED pageVars

\* The framework's handler answers the request (server.js line 21).
HandleDone(r) ==
    /\ server.phase = "listening"
    /\ server.requests[r].state = "handling"
    /\ server' = [server EXCEPT !.requests[r].state = "answered",
                                !.requests[r].statusCode = 200,
                                !.requests[r].body = "page"]
    /\ UNCHANGED pageVars

\* The framework's handler rejects before it has answered (server.js lines 21-26).
HandleThrows(r) ==
    /\ server.phase = "listening"
    /\ server.requests[r].state = "handling"
    /\ server' = onError(server, r, "handle")
    /\ UNCHANGED pageVars

NextServer ==
    \/ Listen
    \/ \E r \in Requests : Receive(r)
    \/ \E r \in Requests : HandleDone(r)
    \/ \E r \in Requests : HandleThrows(r)

SpecServer == Init /\ [][NextServer]_vars

(***************************************************************************)
(* Properties.                                                             *)
(***************************************************************************)

Unmounted(s) == session[s].mountState = "unmounted"

Running(s) == session[s].pc = "running"

\* A closure that is initializing (its scripts are loading) or active (its
\* setup has run), and has not been torn down.
Live(s) ==
    /\ session[s].isMounted
    /\ session[s].pc \in {"load1", "load2", "running"}

\* Nothing of the closure is pending any more: no script, camera request,
\* timer, context init, model load or frame callback.
Quiescent(s) ==
    /\ session[s].pc \notin {"load1", "load2"}
    /\ session[s].arToolkitSource # "pending"
    /\ ~session[s].resizeTimer
    /\ session[s].arToolkitContext # "pending"
    /\ session[s].gltf # "pending"
    /\ session[s].rafPending = {}

\* Nothing was built for the closure and nothing of it is scheduled.
NothingBuilt(c) ==
    /\ c.scene = "undefined"
    /\ c.markerRoot = "undefined"
    /\ c.renderer = "undefined"
    /\ c.arToolkitSource = "undefined"
    /\ c.track = "none"
    /\ c.arToolkitContext = "undefined"
    /\ c.gltf = "none"
    /\ ~c.resizeTimer
    /\ c.rafPending = {}
    /\ c.frames = 0
    /\ c.updates = 0

\* In Spec no frame callback is ever requested: the source is never ready when
\* animate is called at line 165, and nothing calls animate again.
NoFrameRequested == \A s \in Sessions : session[s].rafPending = {}

\* C1: while the view stays mounted, once the setup has run and the tracking
\* source has reported ready, a frame is eventually rendered, and once frames
\* are rendered a frame callback stays requested until unmount.
C1_FramesOnceReady ==
    /\ \A s \in Sessions :
         [](  (Running(s) /\ session[s].isMounted
                 /\ session[s].arToolkitSource = "ready")
            => <>(session[s].frames > 0 \/ ~session[s].isMounted))
    /\ [](\A s \in Sessions :
            (session[s].isMounted /\ session[s].frames > 0)
               => session[s].rafPending # {})

\* C2: at most one closure is initializing or active on the surface at a time.
C2_AtMostOneSession ==
    Cardinality({s \in Sessions : Live(s)}) <= 1

\* C3: a mount notification that finds the data-initialized attribute set only
\* returns: the closure starts no script load and builds nothing, every other
\* closure, the listeners and window.THREEx are untouched, and the attribute
\* stays set.
C3_MountOnInitializedIsNoOp ==
    [][\A s \in Sessions :
         (  session[s].mountState = "fresh"
          /\ session'[s].mountState = "mounted"
          /\ dataInitialized)
         => /\ session' = [session EXCEPT ![s].mountState = "mounted",
                                          ![s].pc = "returned"]
            /\ dataInitialized'
            /\ UNCHANGED <<server, canvasRef, THREEx, innerSize, resizeListeners>>]_vars

\* C3, its case: a closure was mounted on the marked surface and returned.
C3_Witness ==
    /\ canvasRef
    /\ dataInitialized
    /\ \E s \in Sessions : session[s].pc = "returned"
                           /\ session[s].mountState = "mounted"

\* A closure torn down while its scripts were loading, then or later.
EarlyUnmounted(c) ==
    /\ c.mountState = "unmounted"
    /\ c.hasCleanup
    /\ c.pc \in {"load1", "load2", "stale", "scriptError"}

\* C4: a cleanup that runs while the scripts are still loading throws nothing,
\* and from then on, also when the script loads resolve, the closure has no
\* camera track and no requested frame callback (nothing is ever built).
C4_EarlyUnmountLeavesNothing ==
    [][\A s \in Sessions :
         LET c == session[s]
             d == session'[s]
         IN (   (c.mountState = "mounted" /\ c.pc \in {"load1", "load2"}
                   /\ d.mountState = "unmounted")
             \/ (EarlyUnmounted(c) /\ d # c))
            => /\ EarlyUnmounted(d)
               /\ NothingBuilt(d)
               /\ ~d.thrown
               /\ ~d.isMounted]_vars

\* C4, its case: a closure unmounted during the script loads, whose loads have
\* since resolved.
C4_Witness ==
    \E s \in Sessions : Unmounted(s) /\ session[s].pc = "stale"

\* C5: once the cleanup has run and every pending callback of the closure has
\* fired, no camera track of the closure is live, the renderer is not live,
\* and the closure is not mounted.
C5_NoLiveTrackAfterUnmount ==
    \A s \in Sessions :
        (Unmounted(s) /\ Quiescent(s))
           => /\ session[s].track # "live"
              /\ session[s].renderer # "live"
              /\ ~session[s].isMounted

\* C6: a callback of a closure that has been torn down changes nothing of it:
\* no renderer or source is constructed, the scene graph, the camera's
\* projection and the three sizes stay as they are, and the attribute is not
\* set by it.
C6_LateLoadsChangeNothing ==
    [][\A s \in Sessions :
         LET c == session[s]
             d == session'[s]
         IN Unmounted(s)
            => /\ d.renderer = c.renderer
               /\ d.scene = c.scene
               /\ d.markerRoot = c.markerRoot
               /\ d.projectionCopied = c.projectionCopied
               /\ d.sourceSize = c.sourceSize
               /\ d.rendererSize = c.rendererSize
               /\ d.canvasSize = c.canvasSize
               /\ (c.arToolkitSource = "undefined"
                     => d.arToolkitSource = "undefined")
               /\ (d.pc # c.pc => dataInitialized' = dataInitialized)]_vars

\* C7: once the cleanup has run, no frame callback of the closure is requested
\* and no further tracking update or render call is made.
C7_NoFrameAfterUnmount ==
    [][\A s \in Sessions :
         session'[s].mountState = "unmounted"
         => /\ session'[s].rafPending = {}
            /\ session'[s].frames = session[s].frames
            /\ session'[s].updates = session[s].updates]_vars

\* C7, its case: the cleanup ran while the frame loop was running (a frame had
\* been rendered and the next callback was requested).
C7_Witness ==
    \E s \in Sessions :
        /\ Unmounted(s)
        /\ session[s].frames > 0
        /\ session[s].animationFrameId > 0

\* C8: while the tracking source has not reported ready, no tracking update
\* and no render call has been made and no frame callback is requested; and
\* nothing that runs for a closure that is not mounted updates, renders or
\* requests a frame.
C8_NoFrameBeforeReady ==
    /\ [](\A s \in Sessions :
            session[s].arToolkitSource # "ready"
               => /\ session[s].frames = 0
                  /\ session[s].updates = 0
                  /\ session[s].rafPending = {}
                  /\ session[s].animationFrameId = 0)
    /\ [][\A s \in Sessions :
            ~session[s].isMounted /\ session[s].mountState # "fresh"
               => /\ session'[s].frames = session[s].frames
                  /\ session'[s].updates = session[s].updates
                  /\ session'[s].rafPending \subseteq session[s].rafPending]_vars

\* C8, its case: animate has been called (line 165) for a mounted closure whose
\* source had not reported ready, and did nothing.
C8_Witness ==
    \E s \in Sessions :
        /\ Running(s)
        /\ session[s].isMounted
        /\ session[s].arToolkitSource \in {"pending", "error"}
        /\ session[s].frames = 0

\* C9: after every render call scene.visible equals camera.visible as the
\* frame's tracking update left it.
C9_SceneVisibleMirrorsCamera ==
    \A s \in Sessions :
        session[s].frames > 0
           => session[s].sceneVisible = session[s].cameraVisible

\* C9, its case: a frame was rendered with the camera reported invisible.
C9_Witness ==
    \E s \in Sessions :
        /\ session[s].frames > 0
        /\ ~session[s].cameraVisible
        /\ ~session[s].sceneVisible

\* C10: a closure whose script load failed, or that found the entry points
\* missing, has built nothing, registered no resize handler, requested no
\* frame, thrown nothing and logged the failure; and the step that aborts it
\* leaves the data-initialized attribute as it was.
C10_AbortBuildsNothing ==
    /\ [](\A s \in Sessions :
            session[s].pc \in {"scriptError", "noTHREEx"}
               => /\ NothingBuilt(session[s])
                  /\ s \notin resizeListeners
                  /\ ~session[s].thrown
                  /\ session[s].logged)
    /\ [][\A s \in Sessions :
            (  session'[s].pc \in {"scriptError", "noTHREEx"}
             /\ session[s].pc \notin {"scriptError", "noTHREEx"})
               => dataInitialized' = dataInitialized]_vars

\* C10, its case: one closure aborted on a script error and another on missing
\* entry points.
C10_Witness ==
    \E s, t \in Sessions :
        /\ session[s].pc = "scriptError"
        /\ session[t].pc = "noTHREEx"

\* The closure right after a mount notification that starts an initialization.
FreshMount ==
    [FreshClosure EXCEPT !.mountState = "mounted", !.hasCleanup = TRUE,
                         !.isMounted = TRUE, !.pc = "load1",
                         !.script1 = "requested"]

\* C11: the cleanup of a closure leaves the canvas without the
\* data-initialized attribute, and a mount notification that finds the canvas
\* without it starts an initialization exactly as the first one did.
C11_RemountInitializesAgain ==
    [][\A s \in Sessions :
         LET c == session[s]
             d == session'[s]
         IN /\ (c.mountState = "mounted" /\ c.hasCleanup
                  /\ d.mountState = "unmounted")
               => ~dataInitialized'
            /\ (c.mountState = "fresh" /\ d.mountState = "mounted"
                  /\ canvasRef /\ ~dataInitialized)
               => d = FreshMount]_vars

\* C11, its case: a closure that had run its setup was unmounted, and a later
\* closure is initializing on the same canvas.
C11_Witness ==
    \E s, t \in Sessions :
        /\ s < t
        /\ Unmounted(s) /\ Running(s)
        /\ session[t] = FreshMount
        /\ ~dataInitialized

\* C12: once the setup has run, onResize has run at least once and the
\* tracking context has its canvas, the source element, the renderer canvas
\* and the tracking canvas have the same size.
C12_SizesConsistent ==
    \A s \in Sessions :
        (  Running(s)
         /\ session[s].isMounted
         /\ session[s].sourceSize # 0
         /\ session[s].arToolkitContext = "inited")
           => /\ session[s].sourceSize = session[s].rendererSize
              /\ session[s].canvasSize = session[s].sourceSize

\* C18: a closure that has been torn down has no onResize registered on the
\* window and no deferred onResize pending.
C18_NoResizeHandlerAfterUnmount ==
    \A s \in Sessions :
        Unmounted(s)
           => /\ s \notin resizeListeners
              /\ ~session[s].resizeTimer

\* C13: a request whose handling threw has been answered with status 500 and
\* the generic body, the error logged; the server is never brought down, and
\* stays listening for the requests that follow.
C13_RequestErrorsAnswered500 ==
    /\ [](/\ server.phase # "crashed"
          /\ \A r \in Requests :
               server.requests[r].failed # "none"
                  => /\ server.requests[r].state = "answered"
                     /\ server.requests[r].statusCode = 500
                     /\ server.requests[r].body = "internal server error"
                     /\ server.requests[r].logged)
    /\ [][server.phase = "listening" => server'.phase = "listening"]_vars

\* C13, its case: a request failed and was answered 500, and a request
\* received after it was answered by the framework.
C13_Witness ==
    \E q, r \in Requests :
        /\ q < r
        /\ server.requests[q].failed = "parse"
        /\ server.requests[q].statusCode = 500
        /\ server.requests[r].failed = "none"
        /\ server.requests[r].statusCode = 200

\* C19: a closure has at most one frame callback requested at any time: each
\* run of animate consumes the callback that ran and requests at most one.
C19_AtMostOneFramePending ==
    \A s \in Sessions : Cardinality(session[s].rafPending) <= 1

\* C19, its case: the loop has run twice and its next callback is requested.
C19_Witness ==
    \E s \in Sessions :
        /\ session[s].frames = 2
        /\ session[s].animationFrameId = 2
        /\ session[s].rafPending = {2}

\* C20: an effect run that returned early has no cleanup, and its unmount
\* changes nothing but its own mount state: the marker, the resize handlers
\* and every other closure (tracks, frames, renderer) stay as they were.
C20_EarlyReturnReleasesNothing ==
    /\ [](\A s \in Sessions : session[s].pc = "returned" => ~session[s].hasCleanup)
    /\ [][\A s \in Sessions :
            (/\ session[s].pc = "returned"
             /\ session[s].mountState = "mounted"
             /\ session'[s].mountState = "unmounted")
            => /\ session' = [session EXCEPT ![s].mountState = "unmounted"]
               /\ UNCHANGED <<canvasRef, dataInitialized, THREEx, innerSize,
                              resizeListeners>>]_vars

\* C20, its case: a mount that found the surface marked has been unmounted
\* while the closure that marked it is mounted with its camera live.
C20_Witness ==
    \E s, t \in Sessions :
        /\ session[s].pc = "returned"
        /\ Unmounted(s)
        /\ Running(t)
        /\ session[t].mountState = "mounted"
        /\ session[t].track = "live"
        /\ session[t].renderer = "live"
        /\ dataInitialized

\* The elements of a sequence, and the place of one of them.
Range(seq) == {seq[i] : i \in 1..Len(seq)}

Pos(seq, x) == CHOOSE i \in 1..Len(seq) : seq[i] = x

\* Steps (b) to (j) of the setup, as the statements of lines 99-156.
StepsBtoJ ==
    {"scene", "renderer", "source", "context", "resize", "contextInit",
     "markerControls", "model", "lights"}

\* C14: where the surface has been marked, the second script has loaded and
\* every one of the steps (b) to (j) was issued before the marking.
C14_MarkedAfterSetupSteps ==
    \A s \in Sessions :
        "mark" \in Range(session[s].steps)
           => /\ session[s].script2 = "loaded"
              /\ \A b \in StepsBtoJ :
                   /\ b \in Range(session[s].steps)
                   /\ Pos(session[s].steps, b) < Pos(session[s].steps, "mark")

\* C15: the second script is requested only once the first has loaded, and
\* never when the first has failed.
C15_ScriptsInSequence ==
    \A s \in Sessions :
        /\ session[s].script2 # "none" => session[s].script1 = "loaded"
        /\ session[s].script1 = "failed" => session[s].script2 = "none"
        /\ session[s].script1 = "requested" => session[s].pc = "load1"

\* C15, its case: one closure's first script failed and its second was never
\* requested; another closure's second script was requested and has loaded.
C15_Witness ==
    \E s, t \in Sessions :
        /\ session[s].script1 = "failed"
        /\ session[s].script2 = "none"
        /\ session[t].script1 = "loaded"
        /\ session[t].script2 = "loaded"

\* C16: the cleanup of a closure that was set up releases its handles in the
\* reverse of the order in which lines 96-165 acquired them: what is released
\* later was acquired earlier.
C16_ReleasedInReverseOrder ==
    \A s \in Sessions :
        (Unmounted(s) /\ Running(s))
           => LET rel == session[s].released
                  acq == session[s].steps
              IN /\ Range(rel) \subseteq Range(acq)
                 /\ \A i, j \in 1..Len(rel) :
                      i < j => Pos(acq, rel[j]) < Pos(acq, rel[i])

\* C16, its case: a closure whose frame loop was running and whose camera was
\* live has been unmounted, and all four handles were released.
C16_Witness ==
    \E s \in Sessions :
        /\ Unmounted(s)
        /\ session[s].frames > 0
        /\ session[s].track = "stopped"
        /\ session[s].released = <<"animate", "source", "renderer", "mark">>

====
